---- MODULE Spec2Model ----
(***************************************************************************)
(* Task lifecycle and billing protocol of the biological-age service:      *)
(* the request-serving layer (routes/task.py, routes/wallet.py), the       *)
(* billing service (services/billing.py), the task entity                  *)
(* (models/assessment.py) and the queue consumer (worker/main.py).         *)
(*                                                                         *)
(* The store is PostgreSQL at READ COMMITTED, reached through SQLAlchemy   *)
(* sessions.  Every crud helper does add + commit + refresh, so each       *)
(* helper call is one committed step.  A commit writes only the columns    *)
(* whose in-memory value differs from the value that was loaded            *)
(* (attribute history), and refresh re-reads the whole row.  One action    *)
(* of the model is one statement that reaches the store, together with     *)
(* the in-memory code that follows it up to the next such statement.       *)
(***************************************************************************)
EXTENDS Integers, Sequences, FiniteSets, TLC

\* ---------------------------------------------------------------- bounds
MaxTasks == 1
MaxTopups == 1
MaxCrashes == 1
MaxStorageErrors == 1
MaxRuns == 1
MaxUsers == 3
MaxTxs == 3

\* ------------------------------------------------------------- constants
CREATED == "CREATED"
VALIDATED == "VALIDATED"
PROCESSING == "PROCESSING"
DONE == "DONE"
FAILED == "FAILED"
TaskStatus == {CREATED, VALIDATED, PROCESSING, DONE, FAILED}

USER == "USER"
ADMIN == "ADMIN"

TOPUP == "TOPUP"
CHARGE == "CHARGE"

\* Python None of Optional[int] columns (charged_amount, Transaction.task_id)
None == 0
\* Python None of Optional[str] columns
NoneStr == "None"
\* Python None of the Optional[dict] column result (stored as JSON null)
NoneResult == <<>>

Workers == {"w1", "w2"}
Requests == {"r1"}
Users == {1}

\* ml_models rows seeded by init_db: id 1 costs 25, id 2 costs 10; no other
\* row exists, so the next id is one that get_model_by_id does not find
MLModelIds == {1, 2}
MissingModelId == Cardinality(MLModelIds) + 1
price_per_task(m) == IF m = 1 THEN 25 ELSE 10
feature_names == {"BMI"}

\* inputs of the requests
RequestModelIds == {1, MissingModelId}
RequestAnswers == SUBSET feature_names
TopupAmounts == {25, 50}


\* ----------------------------------------------------------------- state
\* tasks: the assessment_tasks rows by id; wallets: balance by user_id;
\* txs: the transactions rows by id; queue[t]: ready messages carrying
\* task t; wk, rq: the position and session contents of each consumer and
\* request; acked: the acknowledgment sent by the step just taken;
\* validated: the tasks for which a commit has written the status VALIDATED;
\* users: the role of each users row by id
VARIABLES tasks, wallets, txs, queue, wk, rq, acked, crashes, storageErrors,
          topups, runs, validated, users

vars == <<tasks, wallets, txs, queue, wk, rq, acked, crashes, storageErrors,
          topups, runs, validated, users>>

\* ------------------------------------------------- entity: AssessmentTask
NewTask(u, m, a) ==
    [user_id |-> u, model_id |-> m, answers |-> a, validation_errors |-> {},
     result |-> NoneResult, charged_amount |-> None, status |-> CREATED,
     error_message |-> NoneStr, worker_id |-> NoneStr]

NoRow == NewTask(0, 0, {})

\* the gate with FAILED forgotten
IsTerminal_DoneOnly(s) == s = DONE

IsTerminal(s) == s \in {DONE, FAILED}

\* BioAgeDataValidator.validate: one error per required field that is absent
validate(m, a) == feature_names \ a

\* the predictor's output for the answers
predict(a) == <<Cardinality(a)>>

\* the answers open to change in every status
add_answer_allowed_Always(t) == TRUE

add_answer_allowed(t) == t.status = CREATED
add_answer(t, field_name) == [t EXCEPT !.answers = @ \cup {field_name}]

\* the validation outcome accepted in every status but the terminal ones
set_validation_result_allowed_NonTerminal(t) == ~IsTerminal(t.status)

set_validation_result_allowed(t) == t.status = CREATED
set_validation_result(t, is_valid, errors) ==
    [t EXCEPT !.validation_errors = errors,
              !.status = IF is_valid THEN VALIDATED ELSE CREATED]

\* the failure recorded without the status change
set_error_MessageOnly(t, msg) == [t EXCEPT !.error_message = msg]

\* the failure accepted in every status but DONE
set_error_allowed_NotDone(t) == t.status # DONE

set_error_allowed(t) == t.status \in {CREATED, VALIDATED, PROCESSING}
set_error(t, msg) == [t EXCEPT !.error_message = msg, !.status = FAILED]

start_processing_allowed(t) == t.status = VALIDATED
start_processing(t) == [t EXCEPT !.status = PROCESSING]

\* the completion with the charged amount left unset
set_result_NoAmount(t, res, amount) ==
    [t EXCEPT !.result = res, !.status = DONE]

\* the completion accepted with any amount
set_result_allowed_AnyAmount(t, amount) == t.status = PROCESSING

set_result_allowed(t, amount) == t.status = PROCESSING /\ amount > 0
set_result(t, res, amount) ==
    [t EXCEPT !.result = res, !.charged_amount = amount, !.status = DONE]

\* ------------------------------------------------------------ persistence
\* flush of one mapped row: UPDATE ... SET only the changed columns
update_task(row, loaded, cur) ==
    [f \in DOMAIN row |-> IF cur[f] # loaded[f] THEN cur[f] ELSE row[f]]

TaskExists(t) == t \in 1..Len(tasks)

\* the balance check dropped
Wallet_can_pay_Unchecked(balance, amount) == amount >= 0

Wallet_can_pay(balance, amount) == balance >= amount

Tx(u, ty, amount, tid) ==
    [user_id |-> u, tx_type |-> ty, amount |-> amount, task_id |-> tid]

\* ---------------------------------------------------------- initial state
IdleWorker == [pc |-> "idle", tid |-> 0, loaded |-> NoRow, bal |-> 0, ex |-> NoneStr]
IdleRequest ==
    [pc |-> "idle", tid |-> 0, loaded |-> NoRow, bal |-> 0, amount |-> 0, args |-> <<>>]
NoAck == [by |-> NoneStr, kind |-> NoneStr, tid |-> 0]

\* RegAuthService.register: every USER has a wallet with balance 0
Init ==
    /\ tasks = <<>>
    /\ wallets = [u \in Users |-> 0]
    /\ txs = <<>>
    /\ queue = <<>>
    /\ wk = [w \in Workers |-> IdleWorker]
    /\ rq = [r \in Requests |-> IdleRequest]
    /\ acked = NoAck
    /\ crashes = 0
    /\ storageErrors = 0
    /\ topups = 0
    /\ runs = 0
    /\ validated = {}
    /\ users = [u \in Users |-> USER]

Faults == <<crashes, storageErrors>>
Counters == <<topups, runs>>

\* ------------------------------------------------------- worker: consumer
\* the broker hands a ready message to a consumer with no unacked message
Deliver(w) ==
    /\ wk[w].pc = "idle"
    /\ \E t \in DOMAIN queue :
        /\ queue[t] > 0
        /\ queue' = [queue EXCEPT ![t] = @ - 1]
        /\ wk' = [wk EXCEPT ![w] = [IdleWorker EXCEPT !.pc = "load", !.tid = t]]
    /\ acked' = NoAck
    /\ UNCHANGED <<tasks, wallets, txs, rq, Faults, Counters, validated, users>>

\* the durable queue also holds messages whose task is not in the store:
\* the application start re-creates the tables (init_db(drop_all=True))
\* while the messages published before it stay in the queue
StaleTaskId == None

DeliverStale(w) ==
    /\ wk[w].pc = "idle"
    /\ wk' = [wk EXCEPT ![w] = [IdleWorker EXCEPT !.pc = "load", !.tid = StaleTaskId]]
    /\ acked' = NoAck
    /\ UNCHANGED <<tasks, wallets, txs, queue, rq, Faults, Counters, validated, users>>

\* basic_ack / basic_nack(requeue=False): the delivery is settled
Settle(w, kind) ==
    /\ wk' = [wk EXCEPT ![w] = IdleWorker]
    /\ acked' = [by |-> w, kind |-> kind, tid |-> wk[w].tid]

Goto(w, pc) == wk' = [wk EXCEPT ![w].pc = pc]
Raise(w, ex) == wk' = [wk EXCEPT ![w].pc = "except_load", ![w].ex = ex]

\* the consumer trusting the validation done before the publish
on_message_load_NoRevalidation(w) ==
    /\ wk[w].pc = "load"
    /\ LET t == wk[w].tid IN
       IF ~TaskExists(t)
       THEN Raise(w, "Task not found in DB") /\ acked' = NoAck
       ELSE LET row == tasks[t] IN
            IF IsTerminal(row.status)
            THEN Settle(w, "ack")
            ELSE /\ acked' = NoAck
                 /\ wk' = [wk EXCEPT ![w].loaded = row,
                             ![w].pc = IF row.model_id \notin MLModelIds THEN "fail_model"
                                       ELSE "can_pay"]
    /\ UNCHANGED <<tasks, wallets, txs, queue, rq, Faults, Counters, validated, users>>

\* lines 64-95: load the task, idempotency gate, model lookup, validation
on_message_load(w) ==
    /\ wk[w].pc = "load"
    /\ LET t == wk[w].tid IN
       IF ~TaskExists(t)
       THEN Raise(w, "Task not found in DB") /\ acked' = NoAck
       ELSE LET row == tasks[t] IN
            IF IsTerminal(row.status)
            THEN Settle(w, "ack")
            ELSE /\ acked' = NoAck
                 /\ wk' = [wk EXCEPT ![w].loaded = row,
                             ![w].pc = IF row.model_id \notin MLModelIds THEN "fail_model"
                                       ELSE IF validate(row.model_id, row.answers) # {} THEN "fail_valid"
                                       ELSE "can_pay"]
    /\ UNCHANGED <<tasks, wallets, txs, queue, rq, Faults, Counters, validated, users>>

\* the in-memory task right before the commit of a failing branch
FailedCopy(w) ==
    LET l == wk[w].loaded IN
    CASE wk[w].pc = "fail_model" ->
           set_error([l EXCEPT !.worker_id = w], "ML model not found")
      [] wk[w].pc = "fail_valid" ->
           set_error([l EXCEPT !.validation_errors = validate(l.model_id, l.answers),
                               !.worker_id = w], "Validation failed in worker")
      [] wk[w].pc = "fail_funds" ->
           set_error([l EXCEPT !.worker_id = w], "Insufficient funds")

\* the failing branch acknowledging without the update_task
on_message_fail_NoPersist(w) ==
    /\ wk[w].pc \in {"fail_model", "fail_valid", "fail_funds"}
    /\ Settle(w, "ack")
    /\ UNCHANGED <<tasks, wallets, txs, queue, rq, Faults, Counters, validated, users>>

\* lines 75-79, 90-95, 100-104: set_error, update_task, basic_ack
on_message_fail(w) ==
    /\ wk[w].pc \in {"fail_model", "fail_valid", "fail_funds"}
    /\ LET t == wk[w].tid IN
       tasks' = [tasks EXCEPT ![t] = update_task(tasks[t], wk[w].loaded, FailedCopy(w))]
    /\ Settle(w, "ack")
    /\ UNCHANGED <<wallets, txs, queue, rq, Faults, Counters, validated, users>>

\* the consumer with the balance gate left out
on_message_can_pay_NoGate(w) ==
    /\ wk[w].pc = "can_pay"
    /\ Goto(w, "processing")
    /\ acked' = NoAck
    /\ UNCHANGED <<tasks, wallets, txs, queue, rq, Faults, Counters, validated, users>>

\* lines 98-99: the balance gate reads the wallet row
on_message_can_pay(w) ==
    /\ wk[w].pc = "can_pay"
    /\ LET l == wk[w].loaded IN
       IF l.user_id \notin DOMAIN wallets
       THEN Raise(w, "No wallet")
       ELSE IF Wallet_can_pay(wallets[l.user_id], price_per_task(l.model_id))
            THEN Goto(w, "processing")
            ELSE Goto(w, "fail_funds")
    /\ acked' = NoAck
    /\ UNCHANGED <<tasks, wallets, txs, queue, rq, Faults, Counters, validated, users>>

\* the consumer scoring before it has committed PROCESSING
on_message_processing_Deferred(w) ==
    /\ wk[w].pc = "processing"
    /\ Goto(w, "predict")
    /\ acked' = NoAck
    /\ UNCHANGED <<tasks, wallets, txs, queue, rq, Faults, Counters, validated, users>>

\* lines 107-110: start_processing only from VALIDATED, then update_task
on_message_processing(w) ==
    /\ wk[w].pc = "processing"
    /\ LET t == wk[w].tid
           l == wk[w].loaded
           cur == [(IF start_processing_allowed(l) THEN start_processing(l) ELSE l)
                     EXCEPT !.worker_id = w]
           row == update_task(tasks[t], l, cur)
       IN /\ tasks' = [tasks EXCEPT ![t] = row]
          /\ wk' = [wk EXCEPT ![w].loaded = row, ![w].pc = "predict"]
    /\ acked' = NoAck
    /\ UNCHANGED <<wallets, txs, queue, rq, Faults, Counters, validated, users>>

\* the charge with the amount check left out
charge_check_AnyAmount(u, amount) ==
    IF u \notin DOMAIN wallets THEN [ok |-> FALSE, ex |-> "No wallet", bal |-> 0]
    ELSE IF ~Wallet_can_pay(wallets[u], amount)
         THEN [ok |-> FALSE, ex |-> "Insufficient funds", bal |-> 0]
    ELSE [ok |-> TRUE, ex |-> NoneStr, bal |-> wallets[u] - amount]

\* BillingService.charge_after_success up to the decrement in memory:
\* the balance to write, or an error
charge_check(u, amount) ==
    IF u \notin DOMAIN wallets THEN [ok |-> FALSE, ex |-> "No wallet", bal |-> 0]
    ELSE IF amount <= 0 THEN [ok |-> FALSE, ex |-> "Charge amount must be > 0", bal |-> 0]
    ELSE IF ~Wallet_can_pay(wallets[u], amount)
         THEN [ok |-> FALSE, ex |-> "Insufficient funds", bal |-> 0]
    ELSE [ok |-> TRUE, ex |-> NoneStr, bal |-> wallets[u] - amount]

\* lines 113-117: predict, then the charged_amount fuse and the wallet read
on_message_predict(w) ==
    /\ wk[w].pc = "predict"
    /\ LET l == wk[w].loaded
           c == charge_check(l.user_id, price_per_task(l.model_id))
       IN \/ Raise(w, "Predict failed")
          \/ /\ l.charged_amount = None
             /\ IF c.ok THEN wk' = [wk EXCEPT ![w].bal = c.bal, ![w].pc = "charge_wallet"]
                        ELSE Raise(w, c.ex)
          \/ /\ l.charged_amount # None
             /\ Goto(w, "set_result")
    /\ acked' = NoAck
    /\ UNCHANGED <<tasks, wallets, txs, queue, rq, Faults, Counters, validated, users>>

\* billing.py line 63-64: wallet.balance -= amount; update_wallet commits
charge_update_wallet(w) ==
    /\ wk[w].pc = "charge_wallet"
    /\ wallets' = [wallets EXCEPT ![wk[w].loaded.user_id] = wk[w].bal]
    /\ Goto(w, "charge_tx")
    /\ acked' = NoAck
    /\ UNCHANGED <<tasks, txs, queue, rq, Faults, Counters, validated, users>>

\* the CHARGE row written without its task reference
charge_create_transaction_NoTaskRef(w) ==
    /\ wk[w].pc = "charge_tx"
    /\ LET l == wk[w].loaded IN
       txs' = Append(txs, Tx(l.user_id, CHARGE, price_per_task(l.model_id), None))
    /\ wk' = [wk EXCEPT ![w].loaded = tasks[wk[w].tid], ![w].pc = "set_result"]
    /\ acked' = NoAck
    /\ UNCHANGED <<tasks, wallets, queue, rq, Faults, Counters, validated, users>>

\* billing.py line 66-73: create_transaction commits the CHARGE row; the
\* commit expires the task, whose next attribute access re-reads the row
charge_create_transaction(w) ==
    /\ wk[w].pc = "charge_tx"
    /\ LET l == wk[w].loaded IN
       txs' = Append(txs, Tx(l.user_id, CHARGE, price_per_task(l.model_id), wk[w].tid))
    /\ wk' = [wk EXCEPT ![w].loaded = tasks[wk[w].tid], ![w].pc = "set_result"]
    /\ acked' = NoAck
    /\ UNCHANGED <<tasks, wallets, queue, rq, Faults, Counters, validated, users>>

\* the scoring call moved behind the charge: it may raise after the debit
on_message_set_result_PredictAfterCharge(w) ==
    /\ wk[w].pc = "set_result"
    /\ LET t == wk[w].tid
           l == wk[w].loaded
           p == price_per_task(l.model_id)
       IN \/ /\ Raise(w, "Predict failed")
             /\ acked' = NoAck
             /\ UNCHANGED tasks
          \/ /\ set_result_allowed(l, p)
             /\ tasks' = [tasks EXCEPT ![t] =
                     update_task(tasks[t], l,
                         [set_result(l, predict(l.answers), p) EXCEPT !.worker_id = w])]
             /\ Settle(w, "ack")
    /\ UNCHANGED <<wallets, txs, queue, rq, Faults, Counters, validated, users>>

\* lines 120-124: set_result, update_task, basic_ack
on_message_set_result(w) ==
    /\ wk[w].pc = "set_result"
    /\ LET t == wk[w].tid
           l == wk[w].loaded
           p == price_per_task(l.model_id)
       IN IF set_result_allowed(l, p)
          THEN /\ tasks' = [tasks EXCEPT ![t] =
                     update_task(tasks[t], l,
                         [set_result(l, predict(l.answers), p) EXCEPT !.worker_id = w])]
               /\ Settle(w, "ack")
          ELSE /\ Raise(w, "set_result() only from PROCESSING")
               /\ acked' = NoAck
               /\ UNCHANGED tasks
    /\ UNCHANGED <<wallets, txs, queue, rq, Faults, Counters, validated, users>>

\* lines 129-133: the handler re-reads the task in a new session
on_message_except_load(w) ==
    /\ wk[w].pc = "except_load"
    /\ LET t == wk[w].tid IN
       IF TaskExists(t) /\ ~IsTerminal(tasks[t].status)
       THEN /\ wk' = [wk EXCEPT ![w].loaded = tasks[t], ![w].pc = "except_commit"]
            /\ acked' = NoAck
       ELSE Settle(w, "nack")
    /\ UNCHANGED <<tasks, wallets, txs, queue, rq, Faults, Counters, validated, users>>

\* the handler with the message put back: basic_nack(requeue=True)
on_message_except_commit_Requeue(w) ==
    /\ wk[w].pc = "except_commit"
    /\ LET t == wk[w].tid
           l == wk[w].loaded
       IN /\ tasks' = [tasks EXCEPT ![t] =
                update_task(tasks[t], l, set_error([l EXCEPT !.worker_id = w], wk[w].ex))]
          /\ queue' = [queue EXCEPT ![t] = @ + 1]
    /\ Settle(w, "nack")
    /\ UNCHANGED <<wallets, txs, rq, Faults, Counters, validated, users>>

\* lines 134-141: set_error(str(ex)), update_task, basic_nack(requeue=False)
on_message_except_commit(w) ==
    /\ wk[w].pc = "except_commit"
    /\ LET t == wk[w].tid
           l == wk[w].loaded
       IN tasks' = [tasks EXCEPT ![t] =
              update_task(tasks[t], l, set_error([l EXCEPT !.worker_id = w], wk[w].ex))]
    /\ Settle(w, "nack")
    /\ UNCHANGED <<wallets, txs, queue, rq, Faults, Counters, validated, users>>

\* a statement against the store raises: inside the try block the handler
\* takes over, inside the handler the error is printed and the nack is sent
StorageError(w) ==
    /\ storageErrors < MaxStorageErrors
    /\ storageErrors' = storageErrors + 1
    /\ \/ /\ wk[w].pc \in {"load", "fail_model", "fail_valid", "fail_funds", "can_pay",
                           "processing", "charge_wallet", "charge_tx", "set_result"}
          /\ Raise(w, "Storage error")
          /\ acked' = NoAck
       \/ /\ wk[w].pc \in {"except_load", "except_commit"}
          /\ Settle(w, "nack")
    /\ UNCHANGED <<tasks, wallets, txs, queue, rq, crashes, Counters, validated, users>>

\* the consumer dies or loses its connection with the delivery unacked
\* (auto_ack=False): the broker puts the message back
Crash(w) ==
    /\ wk[w].pc # "idle"
    /\ crashes < MaxCrashes
    /\ crashes' = crashes + 1
    /\ queue' = IF wk[w].tid \in DOMAIN queue
                THEN [queue EXCEPT ![wk[w].tid] = @ + 1]
                ELSE queue
    /\ wk' = [wk EXCEPT ![w] = IdleWorker]
    /\ acked' = NoAck
    /\ UNCHANGED <<tasks, wallets, txs, rq, storageErrors, Counters, validated, users>>

\* ------------------------------------------------ request-serving layer
EndRequest(r) == rq' = [rq EXCEPT ![r] = IdleRequest]

\* POST /tasks: TaskService.create_draft persists the task in CREATED
create_task(r) ==
    /\ rq[r].pc = "idle"
    /\ Len(tasks) < MaxTasks
    /\ \E u \in Users, m \in RequestModelIds, a \in RequestAnswers :
        tasks' = Append(tasks, NewTask(u, m, a))
    /\ queue' = Append(queue, 0)
    /\ acked' = NoAck
    /\ UNCHANGED <<wallets, txs, wk, rq, Faults, Counters, validated, users>>

\* POST /tasks/predict, lines 83-89: create the draft
predict_create(r) ==
    /\ rq[r].pc = "idle"
    /\ Len(tasks) < MaxTasks
    /\ \E u \in Users, m \in RequestModelIds, a \in RequestAnswers :
        /\ tasks' = Append(tasks, NewTask(u, m, a))
        /\ rq' = [rq EXCEPT ![r] = [IdleRequest EXCEPT !.pc = "validate",
                                      !.tid = Len(tasks) + 1,
                                      !.loaded = NewTask(u, m, a)]]
    /\ queue' = Append(queue, 0)
    /\ acked' = NoAck
    /\ UNCHANGED <<wallets, txs, wk, Faults, Counters, validated, users>>

\* POST /tasks/{id}/run, lines 161-169: load the task, return it if terminal
run_task_load(r) ==
    /\ rq[r].pc = "idle"
    /\ runs < MaxRuns
    /\ runs' = runs + 1
    /\ \E t \in 1..Len(tasks) :
        IF IsTerminal(tasks[t].status)
        THEN UNCHANGED rq
        ELSE rq' = [rq EXCEPT ![r] = [IdleRequest EXCEPT !.pc = "validate",
                                        !.tid = t, !.loaded = tasks[t]]]
    /\ acked' = NoAck
    /\ UNCHANGED <<tasks, wallets, txs, queue, wk, Faults, topups, validated, users>>

\* the quick validation with its outcome ignored
SubmittedCopy_Unvalidated(l) ==
    IF l.model_id \notin MLModelIds THEN set_error(l, "ML model not found")
    ELSE [l EXCEPT !.validation_errors = {}, !.status = VALIDATED]

\* the in-memory task right before the commit of the quick validation
SubmittedCopy(l) ==
    IF l.model_id \notin MLModelIds THEN set_error(l, "ML model not found")
    ELSE IF validate(l.model_id, l.answers) # {}
         THEN [l EXCEPT !.validation_errors = validate(l.model_id, l.answers),
                        !.status = CREATED]
    ELSE [l EXCEPT !.validation_errors = {}, !.status = VALIDATED]

\* the submission with the publish reached whatever the validation found
submit_validate_AlwaysPublish(r) ==
    /\ rq[r].pc = "validate"
    /\ LET t == rq[r].tid
           l == rq[r].loaded
           row == update_task(tasks[t], l, SubmittedCopy(l))
       IN /\ tasks' = [tasks EXCEPT ![t] = row]
          /\ rq' = [rq EXCEPT ![r].loaded = row, ![r].pc = "publish"]
          /\ validated' = IF row.status = VALIDATED /\ l.status # VALIDATED
                           THEN validated \cup {t} ELSE validated
    /\ acked' = NoAck
    /\ UNCHANGED <<wallets, txs, queue, wk, Faults, Counters, users>>

\* predict lines 91-116 and run_task lines 171-193: model lookup, quick
\* validation, update_task; only a valid task goes on to the publish
submit_validate(r) ==
    /\ rq[r].pc = "validate"
    /\ LET t == rq[r].tid
           l == rq[r].loaded
           row == update_task(tasks[t], l, SubmittedCopy(l))
       IN /\ tasks' = [tasks EXCEPT ![t] = row]
          /\ IF l.model_id \in MLModelIds /\ validate(l.model_id, l.answers) = {}
             THEN rq' = [rq EXCEPT ![r].loaded = row, ![r].pc = "publish"]
             ELSE EndRequest(r)
          /\ validated' = IF row.status = VALIDATED /\ l.status # VALIDATED
                           THEN validated \cup {t} ELSE validated
    /\ acked' = NoAck
    /\ UNCHANGED <<wallets, txs, queue, wk, Faults, Counters, users>>

\* the submission charging the price when it publishes
publish_to_queue_Prepaid(r) ==
    /\ rq[r].pc = "publish"
    /\ queue' = [queue EXCEPT ![rq[r].tid] = @ + 1]
    /\ txs' = Append(txs, Tx(rq[r].loaded.user_id, CHARGE,
                              price_per_task(rq[r].loaded.model_id), rq[r].tid))
    /\ EndRequest(r)
    /\ acked' = NoAck
    /\ UNCHANGED <<tasks, wallets, wk, Faults, Counters, validated, users>>

\* predict lines 118-126, run_task lines 195-203: publish_to_queue
publish_to_queue(r) ==
    /\ rq[r].pc = "publish"
    /\ queue' = [queue EXCEPT ![rq[r].tid] = @ + 1]
    /\ EndRequest(r)
    /\ acked' = NoAck
    /\ UNCHANGED <<tasks, wallets, txs, wk, Faults, Counters, validated, users>>

\* POST /wallet/topup -> BillingService.topup lines 39-42: read the wallet
topup(r) ==
    /\ rq[r].pc = "idle"
    /\ topups < MaxTopups
    /\ topups' = topups + 1
    /\ \E u \in DOMAIN wallets, amount \in TopupAmounts :
        /\ amount > 0
        /\ rq' = [rq EXCEPT ![r] = [IdleRequest EXCEPT !.pc = "topup_wallet", !.tid = u,
                                      !.amount = amount, !.bal = wallets[u] + amount]]
    /\ acked' = NoAck
    /\ UNCHANGED <<tasks, wallets, txs, queue, wk, Faults, runs, validated, users>>

\* billing.py lines 44-45: wallet.balance += amount; update_wallet commits
topup_update_wallet(r) ==
    /\ rq[r].pc = "topup_wallet"
    /\ wallets' = [wallets EXCEPT ![rq[r].tid] = rq[r].bal]
    /\ rq' = [rq EXCEPT ![r].pc = "topup_tx"]
    /\ acked' = NoAck
    /\ UNCHANGED <<tasks, txs, queue, wk, Faults, Counters, validated, users>>

\* billing.py lines 47-48: create_transaction commits the TOPUP row
topup_create_transaction(r) ==
    /\ rq[r].pc = "topup_tx"
    /\ txs' = Append(txs, Tx(rq[r].tid, TOPUP, rq[r].amount, None))
    /\ EndRequest(r)
    /\ acked' = NoAck
    /\ UNCHANGED <<tasks, wallets, queue, wk, Faults, Counters, validated, users>>

\* a statement against the store or the broker raises inside a request:
\* the request answers with an error and does nothing more
RequestError(r) ==
    /\ rq[r].pc # "idle"
    /\ storageErrors < MaxStorageErrors
    /\ storageErrors' = storageErrors + 1
    /\ EndRequest(r)
    /\ acked' = NoAck
    /\ UNCHANGED <<tasks, wallets, txs, queue, wk, crashes, Counters, validated, users>>

\* ------------------------------------------- accounts and billing service
\* the arguments a caller may hand to BillingService
BillingAmounts == {-5, 0, 10, 25}

AllElse == <<tasks, queue, wk, Faults, Counters, validated>>

\* the registration with a wallet for every role
register_WalletForAll(r) ==
    /\ rq[r].pc = "idle"
    /\ Len(users) < MaxUsers
    /\ \E role \in {USER, ADMIN} :
        /\ users' = Append(users, role)
        /\ wallets' = wallets @@ (Len(users) + 1 :> 0)
    /\ acked' = NoAck
    /\ UNCHANGED <<txs, rq, AllElse>>

\* RegAuthService.register: the users row and, for role USER, the wallet
\* with balance 0 are added to one session and committed together
register(r) ==
    /\ rq[r].pc = "idle"
    /\ Len(users) < MaxUsers
    /\ \E role \in {USER, ADMIN} :
        /\ users' = Append(users, role)
        /\ wallets' = IF role = USER THEN wallets @@ (Len(users) + 1 :> 0) ELSE wallets
    /\ acked' = NoAck
    /\ UNCHANGED <<txs, rq, AllElse>>

Call(r, pc, u, amount, bal) ==
    rq' = [rq EXCEPT ![r] = [IdleRequest EXCEPT !.pc = pc, !.tid = u,
                                               !.amount = amount, !.bal = bal]]

\* BillingService.balance: _require_wallet, then the balance
billing_balance(r) ==
    /\ rq[r].pc = "idle"
    /\ \E u \in DOMAIN users :
        IF u \notin DOMAIN wallets
        THEN Call(r, "balance_raised", u, 0, 0)
        ELSE Call(r, "balance_returned", u, 0, wallets[u])
    /\ acked' = NoAck
    /\ UNCHANGED <<wallets, txs, users, AllElse>>

\* BillingService.can_pay: _require_wallet, then Wallet.can_pay, which
\* raises on a negative amount
billing_can_pay(r) ==
    /\ rq[r].pc = "idle"
    /\ \E u \in DOMAIN users, amount \in BillingAmounts :
        IF u \notin DOMAIN wallets \/ amount < 0
        THEN Call(r, "can_pay_raised", u, amount, 0)
        ELSE IF Wallet_can_pay(wallets[u], amount)
             THEN Call(r, "can_pay_true", u, amount, wallets[u])
             ELSE Call(r, "can_pay_false", u, amount, wallets[u])
    /\ acked' = NoAck
    /\ UNCHANGED <<wallets, txs, users, AllElse>>

\* the top-up with the amount check left out
billing_topup_Unchecked(r) ==
    /\ rq[r].pc = "idle"
    /\ \E u \in DOMAIN users, amount \in BillingAmounts :
        IF u \notin DOMAIN wallets
        THEN Call(r, "topup_raised", u, amount, 0)
        ELSE /\ Len(txs) < MaxTxs
             /\ Call(r, "topup_wallet", u, amount, wallets[u] + amount)
    /\ acked' = NoAck
    /\ UNCHANGED <<wallets, txs, users, AllElse>>

\* BillingService.topup lines 39-44: _require_wallet, the amount check and
\* the increment in memory
billing_topup(r) ==
    /\ rq[r].pc = "idle"
    /\ \E u \in DOMAIN users, amount \in BillingAmounts :
        IF u \notin DOMAIN wallets \/ amount <= 0
        THEN Call(r, "topup_raised", u, amount, 0)
        ELSE /\ Len(txs) < MaxTxs
             /\ Call(r, "topup_wallet", u, amount, wallets[u] + amount)
    /\ acked' = NoAck
    /\ UNCHANGED <<wallets, txs, users, AllElse>>

\* BillingService.charge_after_success lines 55-63 called for a task of
\* the store: _require_wallet, the amount check, can_pay and the decrement
\* in memory
billing_charge(r) ==
    /\ rq[r].pc = "idle"
    /\ \E t \in DOMAIN tasks, amount \in BillingAmounts :
        LET c == charge_check(tasks[t].user_id, amount) IN
        IF ~c.ok
        THEN rq' = [rq EXCEPT ![r] = [IdleRequest EXCEPT !.pc = "charge_raised", !.tid = t,
                                        !.loaded = tasks[t], !.amount = amount]]
        ELSE /\ Len(txs) < MaxTxs
             /\ rq' = [rq EXCEPT ![r] = [IdleRequest EXCEPT !.pc = "charge_wallet", !.tid = t,
                                           !.loaded = tasks[t], !.amount = amount,
                                           !.bal = c.bal]]
    /\ acked' = NoAck
    /\ UNCHANGED <<wallets, txs, users, AllElse>>

\* billing.py line 64: update_wallet commits the lowered balance
billing_charge_update_wallet(r) ==
    /\ rq[r].pc = "charge_wallet"
    /\ wallets' = [wallets EXCEPT ![rq[r].loaded.user_id] = rq[r].bal]
    /\ rq' = [rq EXCEPT ![r].pc = "charge_tx"]
    /\ acked' = NoAck
    /\ UNCHANGED <<txs, users, AllElse>>

\* billing.py lines 66-73: create_transaction commits the CHARGE row
billing_charge_create_transaction(r) ==
    /\ rq[r].pc = "charge_tx"
    /\ txs' = Append(txs, Tx(rq[r].loaded.user_id, CHARGE, rq[r].amount, rq[r].tid))
    /\ EndRequest(r)
    /\ acked' = NoAck
    /\ UNCHANGED <<wallets, users, AllElse>>

\* the caller has its answer
BillingAnswers == {"balance_raised", "balance_returned", "can_pay_raised", "can_pay_true",
                   "can_pay_false", "topup_raised", "charge_raised"}

billing_return(r) ==
    /\ rq[r].pc \in BillingAnswers
    /\ EndRequest(r)
    /\ acked' = NoAck
    /\ UNCHANGED <<wallets, txs, users, AllElse>>

\* ------------------------------------- synchronous run: TaskService
RqUnchanged == <<queue, wk, Faults, Counters, users>>

\* task_crud.update_task of the request's object, refreshed afterwards
Persist(r, cur) ==
    LET t == rq[r].tid
        row == update_task(tasks[t], rq[r].loaded, cur)
    IN /\ tasks' = [tasks EXCEPT ![t] = row]
       /\ validated' = IF row.status = VALIDATED /\ tasks[t].status # VALIDATED
                        THEN validated \cup {t} ELSE validated

ProcessGoto(r, pc) == rq' = [rq EXCEPT ![r].pc = pc, ![r].loaded = tasks'[rq[r].tid]]

\* TaskService.run_task lines 107-108: create_task, then _process
run_task(r) ==
    /\ rq[r].pc = "idle"
    /\ runs < MaxRuns
    /\ runs' = runs + 1
    /\ \E u \in DOMAIN users, m \in RequestModelIds, a \in RequestAnswers :
        /\ tasks' = Append(tasks, NewTask(u, m, a))
        /\ rq' = [rq EXCEPT ![r] = [IdleRequest EXCEPT !.pc = "process_can_pay",
                                      !.tid = Len(tasks) + 1,
                                      !.loaded = NewTask(u, m, a)]]
    /\ queue' = Append(queue, 0)
    /\ acked' = NoAck
    /\ UNCHANGED <<wallets, txs, wk, Faults, topups, validated, users>>

\* the run with the balance check left out
process_can_pay_NoCheck(r) ==
    /\ rq[r].pc = "process_can_pay"
    /\ LET l == rq[r].loaded IN
       IF l.model_id \notin MLModelIds \/ l.user_id \notin DOMAIN wallets
       THEN EndRequest(r)
       ELSE rq' = [rq EXCEPT ![r].pc = "process_validate"]
    /\ acked' = NoAck
    /\ UNCHANGED <<tasks, wallets, txs, validated, RqUnchanged>>

\* _process lines 67-70: the model lookup and the balance check; a missing
\* model or wallet raises out of the call
process_can_pay(r) ==
    /\ rq[r].pc = "process_can_pay"
    /\ LET l == rq[r].loaded IN
       IF l.model_id \notin MLModelIds \/ l.user_id \notin DOMAIN wallets
       THEN EndRequest(r)
       ELSE IF Wallet_can_pay(wallets[l.user_id], price_per_task(l.model_id))
            THEN rq' = [rq EXCEPT ![r].pc = "process_validate"]
            ELSE rq' = [rq EXCEPT ![r].pc = "process_fail", ![r].args = <<"Insufficient funds">>]
    /\ acked' = NoAck
    /\ UNCHANGED <<tasks, wallets, txs, validated, RqUnchanged>>

\* lines 71-72, 89-90, 96-97: set_error, update_task, return; set_error
\* raising on a terminal task ends the call with nothing written
process_fail(r) ==
    /\ rq[r].pc = "process_fail"
    /\ LET l == rq[r].loaded IN
       IF set_error_allowed(l)
       THEN Persist(r, set_error(l, rq[r].args[1]))
       ELSE UNCHANGED <<tasks, validated>>
    /\ EndRequest(r)
    /\ acked' = NoAck
    /\ UNCHANGED <<wallets, txs, RqUnchanged>>

\* lines 76-81: validate, set_validation_result, update_task; invalid
\* answers end the call
process_validate(r) ==
    /\ rq[r].pc = "process_validate"
    /\ LET l == rq[r].loaded
           errors == validate(l.model_id, l.answers)
       IN IF ~set_validation_result_allowed(l)
          THEN EndRequest(r) /\ UNCHANGED <<tasks, validated>>
          ELSE /\ Persist(r, set_validation_result(l, errors = {}, errors))
               /\ IF errors = {} THEN ProcessGoto(r, "process_start_processing")
                                 ELSE EndRequest(r)
    /\ acked' = NoAck
    /\ UNCHANGED <<wallets, txs, RqUnchanged>>

\* lines 85-86: start_processing, update_task
process_start_processing(r) ==
    /\ rq[r].pc = "process_start_processing"
    /\ LET l == rq[r].loaded IN
       IF start_processing_allowed(l)
       THEN Persist(r, start_processing(l)) /\ ProcessGoto(r, "process_predict")
       ELSE /\ rq' = [rq EXCEPT ![r].pc = "process_fail", ![r].args = <<"Predict failed">>]
            /\ UNCHANGED <<tasks, validated>>
    /\ acked' = NoAck
    /\ UNCHANGED <<wallets, txs, RqUnchanged>>

\* line 87: the scoring call returns or raises
process_predict(r) ==
    /\ rq[r].pc = "process_predict"
    /\ \/ rq' = [rq EXCEPT ![r].pc = "process_charge"]
       \/ rq' = [rq EXCEPT ![r].pc = "process_fail", ![r].args = <<"Predict failed">>]
    /\ acked' = NoAck
    /\ UNCHANGED <<tasks, wallets, txs, validated, RqUnchanged>>

\* line 94: charge_after_success up to the decrement in memory
process_charge(r) ==
    /\ rq[r].pc = "process_charge"
    /\ LET l == rq[r].loaded
           c == charge_check(l.user_id, price_per_task(l.model_id))
       IN IF c.ok
          THEN rq' = [rq EXCEPT ![r].pc = "process_charge_wallet", ![r].bal = c.bal]
          ELSE rq' = [rq EXCEPT ![r].pc = "process_fail", ![r].args = <<c.ex>>]
    /\ acked' = NoAck
    /\ UNCHANGED <<tasks, wallets, txs, validated, RqUnchanged>>

\* billing.py line 64 from _process: update_wallet commits the balance
process_charge_update_wallet(r) ==
    /\ rq[r].pc = "process_charge_wallet"
    /\ wallets' = [wallets EXCEPT ![rq[r].loaded.user_id] = rq[r].bal]
    /\ rq' = [rq EXCEPT ![r].pc = "process_charge_tx"]
    /\ acked' = NoAck
    /\ UNCHANGED <<tasks, txs, validated, RqUnchanged>>

\* billing.py lines 66-73 from _process: the CHARGE row; the commit
\* expires the task, whose next attribute access re-reads the row
process_charge_create_transaction(r) ==
    /\ rq[r].pc = "process_charge_tx"
    /\ LET l == rq[r].loaded IN
       txs' = Append(txs, Tx(l.user_id, CHARGE, price_per_task(l.model_id), rq[r].tid))
    /\ rq' = [rq EXCEPT ![r].pc = "process_set_result", ![r].loaded = tasks[rq[r].tid]]
    /\ acked' = NoAck
    /\ UNCHANGED <<tasks, wallets, validated, RqUnchanged>>

\* lines 99-100: set_result, update_task
process_set_result(r) ==
    /\ rq[r].pc = "process_set_result"
    /\ LET l == rq[r].loaded
           p == price_per_task(l.model_id)
       IN IF set_result_allowed(l, p)
          THEN Persist(r, set_result(l, predict(l.answers), p))
          ELSE UNCHANGED <<tasks, validated>>
    /\ EndRequest(r)
    /\ acked' = NoAck
    /\ UNCHANGED <<wallets, txs, RqUnchanged>>

ProcessStep(r) ==
    \/ run_task(r)
    \/ process_can_pay(r)
    \/ process_fail(r)
    \/ process_validate(r)
    \/ process_start_processing(r)
    \/ process_predict(r)
    \/ process_charge(r)
    \/ process_charge_update_wallet(r)
    \/ process_charge_create_transaction(r)
    \/ process_set_result(r)

\* ------------------------------------------- entity methods, in memory
\* the arguments a caller may hand to the methods of AssessmentTask
EntityMessages == {"Insufficient funds", "Predict failed"}
EntityResults == {predict(a) : a \in RequestAnswers}
EntityErrors == {validate(m, a) : m \in MLModelIds, a \in RequestAnswers}

\* the call returns or raises; the object of the caller is rq[r].loaded
Method(r, name, args, allowed, after) ==
    /\ rq[r].pc = "idle"
    /\ rq' = [rq EXCEPT ![r].pc = IF allowed THEN name \o "_returned" ELSE name \o "_raised",
                        ![r].args = args,
                        ![r].loaded = IF allowed THEN after ELSE @]
    /\ acked' = NoAck
    /\ UNCHANGED <<tasks, wallets, txs, queue, wk, Faults, Counters, validated, users>>

entity_add_answer(r) ==
    \E f \in feature_names :
        Method(r, "add_answer", <<f>>, add_answer_allowed(rq[r].loaded),
               add_answer(rq[r].loaded, f))

entity_set_validation_result(r) ==
    \E is_valid \in BOOLEAN, errors \in EntityErrors :
        Method(r, "set_validation_result", <<is_valid, errors>>,
               set_validation_result_allowed(rq[r].loaded),
               set_validation_result(rq[r].loaded, is_valid, errors))

entity_start_processing(r) ==
    Method(r, "start_processing", <<>>, start_processing_allowed(rq[r].loaded),
           start_processing(rq[r].loaded))

entity_set_result(r) ==
    \E res \in EntityResults, amount \in BillingAmounts :
        Method(r, "set_result", <<res, amount>>, set_result_allowed(rq[r].loaded, amount),
               set_result(rq[r].loaded, res, amount))

entity_set_error(r) ==
    \E msg \in EntityMessages :
        Method(r, "set_error", <<msg>>, set_error_allowed(rq[r].loaded),
               set_error(rq[r].loaded, msg))

\* the caller goes on with the object it holds
entity_return(r) ==
    /\ rq[r].pc \notin {"idle"}
    /\ rq' = [rq EXCEPT ![r].pc = "idle", ![r].args = <<>>]
    /\ acked' = NoAck
    /\ UNCHANGED <<tasks, wallets, txs, queue, wk, Faults, Counters, validated, users>>

\* ---------------------------------------------------------- specification
WorkerStep(w) ==
    \/ Deliver(w)
    \/ on_message_load(w)
    \/ on_message_fail(w)
    \/ on_message_can_pay(w)
    \/ on_message_processing(w)
    \/ on_message_predict(w)
    \/ charge_update_wallet(w)
    \/ charge_create_transaction(w)
    \/ on_message_set_result(w)
    \/ on_message_except_load(w)
    \/ on_message_except_commit(w)

RequestStep(r) ==
    \/ create_task(r)
    \/ predict_create(r)
    \/ run_task_load(r)
    \/ submit_validate(r)
    \/ publish_to_queue(r)
    \/ topup(r)
    \/ topup_update_wallet(r)
    \/ topup_create_transaction(r)

Next ==
    \/ \E r \in Requests : RequestStep(r)
    \/ \E r \in Requests : RequestError(r)
    \/ \E w \in Workers : WorkerStep(w)
    \/ \E w \in Workers : DeliverStale(w)
    \/ \E w \in Workers : StorageError(w)
    \/ \E w \in Workers : Crash(w)

Spec == Init /\ [][Next]_vars

\* the same program with a single consumer process
NextOneWorker ==
    \/ \E r \in Requests : RequestStep(r)
    \/ \E r \in Requests : RequestError(r)
    \/ WorkerStep("w1")
    \/ DeliverStale("w1")
    \/ StorageError("w1")
    \/ Crash("w1")

SpecOneWorker == Init /\ [][NextOneWorker]_vars

\* the single consumer under the scheduling the deployment provides: the
\* broker hands every ready message to the consumer (basic_consume), the
\* consumer runs its callback to the end, and a request that has started
\* runs to its end; crashes and storage errors are not forced to happen,
\* and every message in the queue belongs to a task of the store
RequestRuns(r) ==
    \/ submit_validate(r)
    \/ publish_to_queue(r)
    \/ topup_update_wallet(r)
    \/ topup_create_transaction(r)

Fairness ==
    /\ SF_vars(Deliver("w1"))
    /\ WF_vars(WorkerStep("w1"))
    /\ \A r \in Requests : WF_vars(RequestRuns(r))

NextLive ==
    \/ \E r \in Requests : RequestStep(r)
    \/ \E r \in Requests : RequestError(r)
    \/ WorkerStep("w1")
    \/ StorageError("w1")
    \/ Crash("w1")

SpecLive == Init /\ [][NextLive]_vars /\ Fairness

\* two consumers draining a queue that the requests have filled: the user
\* topped up InitialBalance and then either submitted two valid tasks
\* (one message each) or submitted one and called /run on it while it was
\* VALIDATED (two messages for the same task)
InitialBalances == {25, 50}
ValidatedTask(u) == [NewTask(u, 1, feature_names) EXCEPT !.status = VALIDATED]

InitCharge ==
    /\ \E b \in InitialBalances :
        /\ wallets = [u \in Users |-> b]
        /\ txs = <<Tx(1, TOPUP, b, None)>>
    /\ \/ tasks = <<ValidatedTask(1), ValidatedTask(1)>> /\ queue = <<1, 1>> /\ runs = 0
       \/ tasks = <<ValidatedTask(1)>> /\ queue = <<2>> /\ runs = 1
    /\ wk = [w \in Workers |-> IdleWorker]
    /\ rq = [r \in Requests |-> IdleRequest]
    /\ acked = NoAck
    /\ crashes = 0
    /\ storageErrors = 0
    /\ topups = 1
    /\ validated = DOMAIN tasks
    /\ users = [u \in Users |-> USER]

NextCharge == \E w \in Workers : WorkerStep(w)

SpecCharge == InitCharge /\ [][NextCharge]_vars

\* one consumer working through the queue with nothing else running: the
\* user topped up a balance and submitted one or two valid tasks, each of
\* which is VALIDATED with one message in the queue
DeliveryBalances == {0, 10, 25, 35, 50}
ValidatedTaskOf(u, m) == [NewTask(u, m, feature_names) EXCEPT !.status = VALIDATED]

InitDelivery ==
    /\ \E b \in DeliveryBalances :
        /\ wallets = [u \in Users |-> b]
        /\ txs = IF b > 0 THEN <<Tx(1, TOPUP, b, None)>> ELSE <<>>
        /\ topups = IF b > 0 THEN 1 ELSE 0
    /\ \/ \E m \in MLModelIds :
             tasks = <<ValidatedTaskOf(1, m)>> /\ queue = <<1>>
       \/ \E m1 \in MLModelIds, m2 \in MLModelIds :
             tasks = <<ValidatedTaskOf(1, m1), ValidatedTaskOf(1, m2)>> /\ queue = <<1, 1>>
    /\ wk = [w \in Workers |-> IdleWorker]
    /\ rq = [r \in Requests |-> IdleRequest]
    /\ acked = NoAck
    /\ crashes = 0
    /\ storageErrors = 0
    /\ runs = 0
    /\ validated = DOMAIN tasks
    /\ users = [u \in Users |-> USER]

NextDelivery == WorkerStep("w1")

SpecDelivery == InitDelivery /\ [][NextDelivery]_vars

\* one consumer working through a queue whose tasks were changed in the
\* store after their submission validated them: the answers or the model
\* row the consumer finds need not be the ones the request saw, which is
\* why the consumer looks the model up and validates again
StoredModelIds == MLModelIds \cup {MissingModelId}
StoredTask(u, m, a) == [NewTask(u, m, a) EXCEPT !.status = VALIDATED]

InitRecheck ==
    /\ \E b \in DeliveryBalances :
        /\ wallets = [u \in Users |-> b]
        /\ txs = IF b > 0 THEN <<Tx(1, TOPUP, b, None)>> ELSE <<>>
        /\ topups = IF b > 0 THEN 1 ELSE 0
    /\ \/ \E m \in StoredModelIds, a \in RequestAnswers :
             tasks = <<StoredTask(1, m, a)>> /\ queue = <<1>>
       \/ \E m1 \in StoredModelIds, m2 \in StoredModelIds,
             a1 \in RequestAnswers, a2 \in RequestAnswers :
             tasks = <<StoredTask(1, m1, a1), StoredTask(1, m2, a2)>> /\ queue = <<1, 1>>
    /\ wk = [w \in Workers |-> IdleWorker]
    /\ rq = [r \in Requests |-> IdleRequest]
    /\ acked = NoAck
    /\ crashes = 0
    /\ storageErrors = 0
    /\ runs = 0
    /\ validated = DOMAIN tasks
    /\ users = [u \in Users |-> USER]

NextRecheck == WorkerStep("w1")

SpecRecheck == InitRecheck /\ [][NextRecheck]_vars

\* the accounts and the billing service driven by one caller at a time:
\* a USER and an ADMIN are registered and each has submitted a valid task;
\* further users register, and the caller hands every kind of argument to
\* balance, can_pay, topup and charge_after_success
InitBilling ==
    /\ users = <<USER, ADMIN>>
    /\ wallets = (1 :> 0)
    /\ txs = <<>>
    /\ tasks = <<ValidatedTaskOf(1, 1), ValidatedTaskOf(2, 1)>>
    /\ queue = <<0, 0>>
    /\ wk = [w \in Workers |-> IdleWorker]
    /\ rq = [r \in Requests |-> IdleRequest]
    /\ acked = NoAck
    /\ crashes = 0
    /\ storageErrors = 0
    /\ topups = 0
    /\ runs = 0
    /\ validated = DOMAIN tasks

BillingStep(r) ==
    \/ register(r)
    \/ billing_balance(r)
    \/ billing_can_pay(r)
    \/ billing_topup(r)
    \/ topup_update_wallet(r)
    \/ topup_create_transaction(r)
    \/ billing_charge(r)
    \/ billing_charge_update_wallet(r)
    \/ billing_charge_create_transaction(r)
    \/ billing_return(r)

NextBilling == \E r \in Requests : BillingStep(r)

SpecBilling == InitBilling /\ [][NextBilling]_vars

\* the two run paths side by side: a consumer has the message of a
\* submitted task of user 1, and TaskService.run_task creates and runs a
\* task of its own; both users start with the same balance
InitSync ==
    /\ users = <<USER, USER>>
    /\ \E b \in DeliveryBalances :
        /\ wallets = <<b, b>>
        /\ txs = IF b > 0 THEN <<Tx(1, TOPUP, b, None), Tx(2, TOPUP, b, None)>> ELSE <<>>
        /\ topups = IF b > 0 THEN 2 ELSE 0
    /\ \E m \in MLModelIds, a \in RequestAnswers : tasks = <<StoredTask(1, m, a)>>
    /\ queue = <<1>>
    /\ wk = [w \in Workers |-> IdleWorker]
    /\ rq = [r \in Requests |-> IdleRequest]
    /\ acked = NoAck
    /\ crashes = 0
    /\ storageErrors = 0
    /\ runs = 0
    /\ validated = DOMAIN tasks

NextSync == (\E r \in Requests : ProcessStep(r)) \/ WorkerStep("w1")

SpecSync == InitSync /\ [][NextSync]_vars

\* the methods of one AssessmentTask object called in any order: the object
\* is a new task of model 1, with or without its answer
InitEntity ==
    /\ users = [u \in Users |-> USER]
    /\ wallets = [u \in Users |-> 0]
    /\ txs = <<>>
    /\ tasks = <<>>
    /\ queue = <<>>
    /\ wk = [w \in Workers |-> IdleWorker]
    /\ \E a \in RequestAnswers :
        rq = [r \in Requests |-> [IdleRequest EXCEPT !.loaded = NewTask(1, 1, a)]]
    /\ acked = NoAck
    /\ crashes = 0
    /\ storageErrors = 0
    /\ topups = 0
    /\ runs = 0
    /\ validated = {}

EntityStep(r) ==
    \/ entity_add_answer(r)
    \/ entity_set_validation_result(r)
    \/ entity_start_processing(r)
    \/ entity_set_result(r)
    \/ entity_set_error(r)
    \/ entity_return(r)

NextEntity == \E r \in Requests : EntityStep(r)

SpecEntity == InitEntity /\ [][NextEntity]_vars

\* ------------------------------------------------------------ type check
TypeOK ==
    /\ \A t \in 1..Len(tasks) : tasks[t].status \in TaskStatus
    /\ \A u \in DOMAIN wallets : wallets[u] \in Int
    /\ \A w \in Workers : wk[w].pc \in {"idle", "load", "fail_model", "fail_valid",
            "fail_funds", "can_pay", "processing", "predict", "charge_wallet",
            "charge_tx", "set_result", "except_load", "except_commit"}

\* ---------------------------------------------------------------- ledger
TaskRange == 1..Len(tasks)
ChargeTxs(t) == {i \in DOMAIN txs : txs[i].tx_type = CHARGE /\ txs[i].task_id = t}
UserTxs(u, ty) == {i \in DOMAIN txs : txs[i].user_id = u /\ txs[i].tx_type = ty}

RECURSIVE SumAmounts(_)
SumAmounts(S) ==
    IF S = {} THEN 0
    ELSE LET i == CHOOSE x \in S : TRUE IN txs[i].amount + SumAmounts(S \ {i})

\* replay of the user's transactions
LedgerBalance(u) == SumAmounts(UserTxs(u, TOPUP)) - SumAmounts(UserTxs(u, CHARGE))

WorkersAtRest == \A w \in Workers : wk[w].pc = "idle"
QueueEmpty == \A t \in DOMAIN queue : queue[t] = 0

\* ---------------------------------------------------------------- claims

\* C1: for every task of every persisted state, charged_amount is set if
\* and only if the status is DONE.
C1_ChargedIffDone ==
    \A t \in TaskRange : (tasks[t].charged_amount # None) <=> (tasks[t].status = DONE)

\* C2: after every committed step the balance of every user equals the sum
\* of the user's TOPUP amounts minus the sum of the user's CHARGE amounts.
C2_LedgerReplay ==
    \A u \in DOMAIN wallets : wallets[u] = LedgerBalance(u)

\* C3: a DONE task has exactly one CHARGE transaction, of amount
\* charged_amount, and a FAILED task has none.
C3_ChargedIffSucceeded ==
    \A t \in TaskRange :
        /\ tasks[t].status = DONE =>
              /\ Cardinality(ChargeTxs(t)) = 1
              /\ \A i \in ChargeTxs(t) : txs[i].amount = tasks[t].charged_amount
        /\ tasks[t].status = FAILED => ChargeTxs(t) = {}

\* C4: with one consumer, whatever crashes and redeliveries happen, no
\* task ever has more than one CHARGE transaction.
C4_AtMostOneChargePerTask ==
    \A t \in TaskRange : Cardinality(ChargeTxs(t)) <= 1

\* C5: when the two messages of one task go to two consumers, the task is
\* debited at most once and the balance never drops by more than one price.
C5_OneDebitUnderConcurrentDelivery ==
    Len(tasks) = 1 =>
        /\ SumAmounts(ChargeTxs(1)) <= price_per_task(tasks[1].model_id)
        /\ wallets[tasks[1].user_id] >=
              SumAmounts(UserTxs(tasks[1].user_id, TOPUP)) - price_per_task(tasks[1].model_id)

\* C6: two consumers charging one wallet for two different tasks: the
\* charges that succeeded are covered by the initial balance, and at the
\* end the balance is the initial balance minus the amounts charged.
C6_ChargesSerialize ==
    Len(tasks) = 2 =>
        /\ SumAmounts(UserTxs(1, CHARGE)) <= SumAmounts(UserTxs(1, TOPUP))
        /\ (WorkersAtRest /\ QueueEmpty) =>
              wallets[1] = SumAmounts(UserTxs(1, TOPUP)) - SumAmounts(UserTxs(1, CHARGE))

\* C7: every step that changes a balance appends the matching transaction
\* in the same step.
C7_BalanceAndLedgerAtomic ==
    [][\A u \in DOMAIN wallets :
          wallets'[u] # wallets[u] =>
              /\ Len(txs') = Len(txs) + 1
              /\ txs'[Len(txs')].user_id = u
              /\ txs'[Len(txs')].amount = IF wallets'[u] > wallets[u]
                                          THEN wallets'[u] - wallets[u]
                                          ELSE wallets[u] - wallets'[u]]_vars

\* C8: the persisted balance of every wallet is never negative.
C8_BalanceNonNegative ==
    \A u \in DOMAIN wallets : wallets[u] >= 0

\* a charge has been committed and has emptied the wallet
C8_Witness ==
    /\ \E i \in DOMAIN txs : txs[i].tx_type = CHARGE
    /\ \E u \in DOMAIN wallets : wallets[u] = 0

\* C9: the step in which a consumer loads a task that is already DONE or
\* FAILED sends ack and changes no task, no wallet and no transaction.
C9_IdempotencyGate ==
    [][\A w \in Workers :
          (/\ wk[w].pc = "load"
           /\ wk[w].tid \in TaskRange
           /\ tasks[wk[w].tid].status \in {DONE, FAILED}
           /\ wk'[w] # wk[w]
           /\ crashes' = crashes
           /\ storageErrors' = storageErrors)
          => /\ acked' = [by |-> w, kind |-> "ack", tid |-> wk[w].tid]
             /\ wk'[w].pc = "idle"
             /\ tasks' = tasks
             /\ wallets' = wallets
             /\ txs' = txs]_vars

\* a delivery of a DONE task has just been acked by a consumer other than
\* the one that completed it
C9_Witness ==
    /\ acked.kind = "ack"
    /\ acked.tid \in TaskRange
    /\ tasks[acked.tid].status = DONE
    /\ tasks[acked.tid].worker_id # acked.by

\* C10: once the persisted status of a task is DONE or FAILED, no step
\* changes its status, result, charged_amount or error_message.
C10_TerminalAbsorbing ==
    [][\A t \in TaskRange :
          tasks[t].status \in {DONE, FAILED} =>
              /\ tasks'[t].status = tasks[t].status
              /\ tasks'[t].result = tasks[t].result
              /\ tasks'[t].charged_amount = tasks[t].charged_amount
              /\ tasks'[t].error_message = tasks[t].error_message]_vars

\* position of a status on the path CREATED -> VALIDATED -> PROCESSING -> DONE
StatusRank(st) ==
    CASE st = CREATED -> 0 [] st = VALIDATED -> 1 [] st = PROCESSING -> 2
      [] st = DONE -> 3 [] st = FAILED -> 3

\* C11: every step leaves the persisted status of a task where it is, moves
\* it forward along CREATED -> VALIDATED -> PROCESSING -> DONE, or moves it
\* from a non-terminal status to FAILED.
C11_StatusMovesForward ==
    [][\A t \in TaskRange :
          \/ tasks'[t].status = tasks[t].status
          \/ /\ tasks'[t].status # FAILED
             /\ StatusRank(tasks'[t].status) > StatusRank(tasks[t].status)
          \/ /\ tasks'[t].status = FAILED
             /\ tasks[t].status \notin {DONE, FAILED}]_vars

\* consumer w is past the gate of its task and has not yet committed the
\* task's final status
BetweenGateAndFinalization(w) ==
    wk[w].pc \in {"fail_model", "fail_valid", "fail_funds", "can_pay", "processing",
                  "predict", "charge_wallet", "charge_tx", "set_result"}

\* C12: no two consumers are between the idempotency gate and the
\* finalization of the same task at the same time.
C12_SingleOwningWorker ==
    \A w1 \in Workers, w2 \in Workers :
        (w1 # w2 /\ BetweenGateAndFinalization(w1) /\ BetweenGateAndFinalization(w2))
            => wk[w1].tid # wk[w2].tid

\* C13: the step in which a request (/predict or /run) commits the outcome
\* of a failed validation leaves the task CREATED with validation errors,
\* ends the request without a publish, and changes no queue, no wallet and
\* no transaction.
C13_InvalidSubmission ==
    [][\A r \in Requests :
          (/\ rq[r].pc = "validate"
           /\ rq'[r] # rq[r]
           /\ storageErrors' = storageErrors
           /\ rq[r].loaded.model_id \in MLModelIds
           /\ validate(rq[r].loaded.model_id, rq[r].loaded.answers) # {})
          => /\ tasks'[rq[r].tid].status = CREATED
             /\ tasks'[rq[r].tid].validation_errors # {}
             /\ rq'[r].pc = "idle"
             /\ queue' = queue
             /\ wallets' = wallets
             /\ txs' = txs]_vars

\* /run has been called on a task with a missing answer: the task is
\* CREATED with errors, nothing is queued and no request is in flight
C13_Witness ==
    /\ runs > 0
    /\ \E t \in TaskRange :
          /\ tasks[t].status = CREATED
          /\ tasks[t].validation_errors # {}
          /\ queue[t] = 0
    /\ \A r \in Requests : rq[r].pc = "idle"
    /\ txs = <<>>

\* C14: every step that publishes a message for a task comes after a
\* commit of that task's VALIDATED status, and the task it publishes has an
\* existing model and answers that pass the validation.
C14_ValidatedBeforeQueued ==
    [][\A t \in DOMAIN queue :
          (queue'[t] > queue[t] /\ crashes' = crashes)
          => /\ t \in validated
             /\ tasks[t].model_id \in MLModelIds
             /\ validate(tasks[t].model_id, tasks[t].answers) = {}]_vars

\* a message of a task that was validated is waiting in the queue
C14_Witness ==
    \E t \in DOMAIN queue :
        /\ queue[t] > 0
        /\ t \in validated
        /\ tasks[t].status = VALIDATED
        /\ crashes = 0

\* the step of consumer w out of position pc
StepFrom(w, pc) == wk[w].pc = pc /\ wk'[w] # wk[w]
OwnerOf(w) == wk[w].loaded.user_id
PriceOf(w) == price_per_task(wk[w].loaded.model_id)

\* C15: a consumer that finds the owner's balance below the price goes to
\* the failing branch without touching the store, and that branch commits
\* FAILED with the insufficient-funds message, leaves the balance and the
\* transactions as they were, with no CHARGE for the task, and sends ack.
C15_InsufficientFunds ==
    [][\A w \in Workers :
          /\ (StepFrom(w, "can_pay") /\ wallets[OwnerOf(w)] < PriceOf(w))
             => /\ wk'[w].pc = "fail_funds"
                /\ tasks' = tasks /\ wallets' = wallets /\ txs' = txs
          /\ StepFrom(w, "fail_funds")
             => /\ tasks'[wk[w].tid].status = FAILED
                /\ tasks'[wk[w].tid].error_message = "Insufficient funds"
                /\ wallets' = wallets /\ txs' = txs
                /\ ChargeTxs(wk[w].tid) = {}
                /\ acked' = [by |-> w, kind |-> "ack", tid |-> wk[w].tid]]_vars

\* the delivery of a task priced above the balance has just been acked
C15_Witness ==
    /\ acked.kind = "ack"
    /\ acked.tid \in TaskRange
    /\ tasks[acked.tid].status = FAILED
    /\ tasks[acked.tid].error_message = "Insufficient funds"
    /\ wallets[tasks[acked.tid].user_id] < price_per_task(tasks[acked.tid].model_id)
    /\ wallets[tasks[acked.tid].user_id] > 0

\* C16: when the scoring call raises, the raise itself and the handler's
\* load change nothing in the store, the handler then commits FAILED with
\* the exception detail, and the balance and the transactions stay as they
\* were, with no CHARGE for the task.
C16_ScoringFailure ==
    [][\A w \in Workers :
          /\ (StepFrom(w, "predict") /\ wk'[w].ex = "Predict failed")
             => tasks' = tasks /\ wallets' = wallets /\ txs' = txs
          /\ (StepFrom(w, "except_load") /\ wk[w].ex = "Predict failed")
             => /\ wk'[w].pc = "except_commit"
                /\ tasks' = tasks /\ wallets' = wallets /\ txs' = txs
          /\ (StepFrom(w, "except_commit") /\ wk[w].ex = "Predict failed")
             => /\ tasks'[wk[w].tid].status = FAILED
                /\ tasks'[wk[w].tid].error_message = "Predict failed"
                /\ wallets' = wallets /\ txs' = txs
                /\ ChargeTxs(wk[w].tid) = {}
                /\ wallets[OwnerOf(w)] = LedgerBalance(OwnerOf(w))]_vars

\* a delivery whose scoring call raised has been settled with the balance
\* still covering the price
C16_Witness ==
    /\ acked.kind # NoneStr
    /\ acked.tid \in TaskRange
    /\ tasks[acked.tid].status = FAILED
    /\ tasks[acked.tid].error_message = "Predict failed"
    /\ wallets[tasks[acked.tid].user_id] >= price_per_task(tasks[acked.tid].model_id)

\* C17: with a balance that covers the price, a consumer that is not
\* interrupted and whose scoring call returns passes the balance gate,
\* lowers the balance by the price, records one CHARGE of the price for the
\* task and commits DONE with charged_amount equal to the price.
C17_SuccessfulProcessing ==
    [][\A w \in Workers :
          /\ (StepFrom(w, "can_pay") /\ wallets[OwnerOf(w)] >= PriceOf(w))
             => wk'[w].pc = "processing"
          /\ (StepFrom(w, "predict") /\ wk'[w].ex # "Predict failed")
             => wk'[w].pc = "charge_wallet"
          /\ StepFrom(w, "charge_wallet")
             => wallets'[OwnerOf(w)] = wallets[OwnerOf(w)] - PriceOf(w)
          /\ StepFrom(w, "charge_tx")
             => txs' = Append(txs, Tx(OwnerOf(w), CHARGE, PriceOf(w), wk[w].tid))
          /\ StepFrom(w, "set_result")
             => /\ tasks'[wk[w].tid].status = DONE
                /\ tasks'[wk[w].tid].charged_amount = PriceOf(w)
                /\ Cardinality(ChargeTxs(wk[w].tid)) = 1
                /\ wallets' = wallets
                /\ wallets[OwnerOf(w)] = LedgerBalance(OwnerOf(w))
                /\ acked' = [by |-> w, kind |-> "ack", tid |-> wk[w].tid]]_vars

\* balance 50, price 25: the only task is DONE with charged_amount 25, the
\* balance is 25 and one CHARGE of 25 references the task
C17_Witness ==
    /\ Len(tasks) = 1
    /\ tasks[1].status = DONE
    /\ tasks[1].charged_amount = 25
    /\ wallets[1] = 25
    /\ txs = <<Tx(1, TOPUP, 50, None), Tx(1, CHARGE, 25, 1)>>

\* the step in which consumer w settles its delivery
Settles(w) == wk[w].pc # "idle" /\ wk'[w].pc = "idle" /\ crashes' = crashes

\* C18: a consumer settles the delivery of a message whose task is not in
\* the store with ack, and changes no task, no wallet and no transaction.
C18_StaleMessageAcked ==
    [][\A w \in Workers :
          (Settles(w) /\ wk[w].tid \notin TaskRange)
          => /\ acked' = [by |-> w, kind |-> "ack", tid |-> wk[w].tid]
             /\ tasks' = tasks /\ wallets' = wallets /\ txs' = txs]_vars

\* C19: a delivery that ends with its task DONE or FAILED and in which
\* nothing but the scoring call raised is settled with ack.
C19_TerminalOutcomeAcked ==
    [][\A w \in Workers :
          (/\ Settles(w)
           /\ storageErrors' = storageErrors
           /\ wk[w].tid \in TaskRange
           /\ tasks'[wk[w].tid].status \in {DONE, FAILED}
           /\ wk[w].ex \in {NoneStr, "Predict failed"})
          => acked' = [by |-> w, kind |-> "ack", tid |-> wk[w].tid]]_vars

\* C20: a consumer ends every delivery it handles with one ack or one nack
\* sent in its last step, and no step of a consumer puts a message into the
\* queue.
C20_NeverRequeues ==
    [][\A w \in Workers :
          /\ Settles(w)
             => /\ acked'.by = w
                /\ acked'.kind \in {"ack", "nack"}
                /\ acked'.tid = wk[w].tid
          /\ acked'.by = w => Settles(w)
          /\ (wk'[w] # wk[w] /\ crashes' = crashes)
             => \A t \in DOMAIN queue : queue'[t] <= queue[t]]_vars

\* a delivery that failed has been settled with nack and its message is
\* gone: the queue is empty and every consumer is idle
C20_Witness ==
    /\ acked.kind = "nack"
    /\ acked.tid \in TaskRange
    /\ tasks[acked.tid].status = FAILED
    /\ QueueEmpty
    /\ WorkersAtRest

\* C21: every step in which a consumer settles the delivery of a task that
\* is in the store leaves that task's persisted status DONE or FAILED.
C21_HandledDeliveryIsTerminal ==
    [][\A w \in Workers :
          (Settles(w) /\ wk[w].tid \in TaskRange)
          => tasks'[wk[w].tid].status \in {DONE, FAILED}]_vars

\* C22: every task whose VALIDATED status has been committed eventually
\* has the persisted status DONE or FAILED.
C22_ValidatedTaskTerminates ==
    \A t \in 1..MaxTasks :
        (t \in validated) ~> (t \in TaskRange /\ tasks[t].status \in {DONE, FAILED})

\* the row consumer w is about to load
StoredRow(w) == tasks[wk[w].tid]

\* C23: a consumer that loads a task whose stored answers fail the
\* validation goes to the failing branch without touching the store, and
\* that branch stores the validation errors, commits FAILED with the
\* validation-failed message, leaves the balance and the transactions as
\* they were, with no CHARGE for the task, and sends ack.
C23_WorkerRevalidates ==
    [][\A w \in Workers :
          /\ (/\ StepFrom(w, "load")
              /\ wk[w].tid \in TaskRange
              /\ StoredRow(w).status \notin {DONE, FAILED}
              /\ StoredRow(w).model_id \in MLModelIds
              /\ validate(StoredRow(w).model_id, StoredRow(w).answers) # {})
             => /\ wk'[w].pc = "fail_valid"
                /\ tasks' = tasks /\ wallets' = wallets /\ txs' = txs
          /\ StepFrom(w, "fail_valid")
             => /\ tasks'[wk[w].tid].status = FAILED
                /\ tasks'[wk[w].tid].error_message = "Validation failed in worker"
                /\ tasks'[wk[w].tid].validation_errors =
                      validate(StoredRow(w).model_id, StoredRow(w).answers)
                /\ tasks'[wk[w].tid].validation_errors # {}
                /\ wallets' = wallets /\ txs' = txs
                /\ ChargeTxs(wk[w].tid) = {}
                /\ acked' = [by |-> w, kind |-> "ack", tid |-> wk[w].tid]]_vars

\* the delivery of a task with a missing answer has been acked although
\* the balance covered the price
C23_Witness ==
    /\ acked.kind = "ack"
    /\ acked.tid \in TaskRange
    /\ tasks[acked.tid].status = FAILED
    /\ tasks[acked.tid].error_message = "Validation failed in worker"
    /\ tasks[acked.tid].validation_errors # {}
    /\ wallets[tasks[acked.tid].user_id] >= price_per_task(tasks[acked.tid].model_id)

\* C24: a consumer that loads a task whose model row is not in the store
\* goes to the failing branch without touching the store, and that branch
\* commits FAILED with the model-not-found message, leaves the balance and
\* the transactions as they were, with no CHARGE for the task, and sends
\* ack.
C24_WorkerModelMissing ==
    [][\A w \in Workers :
          /\ (/\ StepFrom(w, "load")
              /\ wk[w].tid \in TaskRange
              /\ StoredRow(w).status \notin {DONE, FAILED}
              /\ StoredRow(w).model_id \notin MLModelIds)
             => /\ wk'[w].pc = "fail_model"
                /\ tasks' = tasks /\ wallets' = wallets /\ txs' = txs
          /\ StepFrom(w, "fail_model")
             => /\ tasks'[wk[w].tid].status = FAILED
                /\ tasks'[wk[w].tid].error_message = "ML model not found"
                /\ wallets' = wallets /\ txs' = txs
                /\ ChargeTxs(wk[w].tid) = {}
                /\ acked' = [by |-> w, kind |-> "ack", tid |-> wk[w].tid]]_vars

\* the delivery of a task whose model is gone has been acked by the
\* consumer, with a balance that is not zero
C24_Witness ==
    /\ acked.kind = "ack"
    /\ acked.tid \in TaskRange
    /\ tasks[acked.tid].status = FAILED
    /\ tasks[acked.tid].error_message = "ML model not found"
    /\ tasks[acked.tid].worker_id = acked.by
    /\ wallets[tasks[acked.tid].user_id] > 0

TaskRequestStep(r) ==
    /\ rq'[r] # rq[r] \/ Len(tasks') > Len(tasks)
    /\ rq[r].pc \in {"idle", "validate", "publish"}
    /\ rq'[r].pc \in {"idle", "validate", "publish"}

\* C26: no step of POST /tasks, /predict or /run changes a balance or the
\* transactions; every task a request creates is persisted in CREATED with
\* the model and the answers it was given; and a CHARGE transaction is only
\* ever appended by a consumer in its charge step.
C26_RequestsNeverCharge ==
    [][/\ \A r \in Requests :
            TaskRequestStep(r) => wallets' = wallets /\ txs' = txs
       /\ Len(tasks') > Len(tasks)
            => /\ Len(tasks') = Len(tasks) + 1
               /\ tasks'[Len(tasks')].status = CREATED
               /\ tasks'[Len(tasks')].charged_amount = None
       /\ (Len(txs') > Len(txs) /\ txs'[Len(txs')].tx_type = CHARGE)
            => \E w \in Workers : StepFrom(w, "charge_tx")]_vars

\* a draft with an unknown model and a missing answer was accepted while
\* the balance was 0
C26_Witness ==
    /\ \E t \in TaskRange :
          /\ tasks[t].status = CREATED
          /\ tasks[t].model_id \notin MLModelIds
          /\ validate(tasks[t].model_id, tasks[t].answers) # {}
    /\ \A u \in DOMAIN wallets : wallets[u] = 0
    /\ txs = <<>>
    /\ topups = 0

\* ------------------------------------------------- billing service calls
CallFrom(r, pc) == rq[r].pc = pc /\ rq'[r] # rq[r]
Called(r, pcs) == rq[r].pc = "idle" /\ rq'[r].pc \in pcs
AccountsUnchanged == wallets' = wallets /\ txs' = txs

\* C27: topup(user, amount) with amount > 0 increases the balance by exactly
\* amount and appends exactly one TOPUP transaction of that amount with no
\* task reference; with amount <= 0 it fails and leaves both the balance
\* and the transactions unchanged.
C27_TopupContract ==
    [][\A r \in Requests :
        /\ Called(r, {"topup_raised", "topup_wallet"}) =>
              /\ AccountsUnchanged
              /\ rq'[r].pc = "topup_wallet" <=>
                    (rq'[r].tid \in DOMAIN wallets /\ rq'[r].amount > 0)
        /\ CallFrom(r, "topup_raised") => AccountsUnchanged /\ rq'[r].pc = "idle"
        /\ CallFrom(r, "topup_wallet") =>
              /\ wallets' = [wallets EXCEPT ![rq[r].tid] = @ + rq[r].amount]
              /\ txs' = txs
              /\ rq'[r].pc = "topup_tx"
              /\ rq'[r].tid = rq[r].tid /\ rq'[r].amount = rq[r].amount
        /\ CallFrom(r, "topup_tx") =>
              /\ txs' = Append(txs, [user_id |-> rq[r].tid, tx_type |-> TOPUP,
                                     amount |-> rq[r].amount, task_id |-> None])
              /\ wallets' = wallets
              /\ rq'[r].pc = "idle"
    ]_vars

\* a top-up of a positive amount has completed and a later one with an
\* amount that is not positive has been refused
C27_Witness ==
    \E r \in Requests :
        /\ rq[r].pc = "topup_raised"
        /\ rq[r].tid \in DOMAIN wallets
        /\ rq[r].amount <= 0
        /\ Len(txs) = 1
        /\ txs[1].tx_type = TOPUP
        /\ wallets[txs[1].user_id] = txs[1].amount

\* C28: charge_after_success(user, amount, task) fails when amount <= 0 or
\* balance < amount and then leaves the balance and the transactions
\* unchanged; on success it decreases the balance by exactly amount and
\* appends exactly one CHARGE transaction of that amount referencing the task.
C28_ChargeContract ==
    [][\A r \in Requests :
        /\ Called(r, {"charge_raised", "charge_wallet"}) =>
              LET u == tasks[rq'[r].tid].user_id IN
              /\ AccountsUnchanged
              /\ rq'[r].loaded = tasks[rq'[r].tid]
              /\ rq'[r].pc = "charge_raised" <=>
                    \/ u \notin DOMAIN wallets
                    \/ rq'[r].amount <= 0
                    \/ wallets[u] < rq'[r].amount
        /\ CallFrom(r, "charge_raised") => AccountsUnchanged /\ rq'[r].pc = "idle"
        /\ CallFrom(r, "charge_wallet") =>
              /\ wallets' = [wallets EXCEPT ![rq[r].loaded.user_id] = @ - rq[r].amount]
              /\ txs' = txs
              /\ rq'[r].pc = "charge_tx"
              /\ rq'[r].tid = rq[r].tid /\ rq'[r].amount = rq[r].amount
              /\ rq'[r].loaded = rq[r].loaded
        /\ CallFrom(r, "charge_tx") =>
              /\ txs' = Append(txs, [user_id |-> rq[r].loaded.user_id, tx_type |-> CHARGE,
                                     amount |-> rq[r].amount, task_id |-> rq[r].tid])
              /\ wallets' = wallets
              /\ rq'[r].pc = "idle"
    ]_vars

\* a charge has completed and a later one that the balance does not cover
\* has been refused
C28_Witness ==
    \E r \in Requests :
        /\ rq[r].pc = "charge_raised"
        /\ rq[r].amount > 0
        /\ rq[r].loaded.user_id \in DOMAIN wallets
        /\ wallets[rq[r].loaded.user_id] < rq[r].amount
        /\ \E i \in DOMAIN txs : txs[i].tx_type = CHARGE /\ txs[i].task_id = rq[r].tid

NoWalletAnswers == {"balance_raised", "can_pay_raised", "topup_raised"}
WalletCalls == {"balance_raised", "balance_returned", "can_pay_raised", "can_pay_true",
                "can_pay_false", "topup_raised", "topup_wallet"}

\* C29: every user registered with role USER has exactly one wallet,
\* created with balance 0 in the same commit as the user; an ADMIN has none,
\* and balance, can_pay, topup and charge for a user without a wallet fail
\* without changing any state.
C29_WalletPerUser ==
    /\ [](\A u \in DOMAIN users : (users[u] = USER) <=> (u \in DOMAIN wallets))
    /\ [][/\ users' # users =>
              LET u == Len(users') IN
              /\ users' = Append(users, users'[u])
              /\ wallets' = IF users'[u] = USER THEN wallets @@ (u :> 0) ELSE wallets
              /\ UNCHANGED <<tasks, txs, queue>>
          /\ \A r \in Requests :
              /\ (Called(r, WalletCalls) /\ rq'[r].tid \notin DOMAIN wallets) =>
                    /\ rq'[r].pc \in NoWalletAnswers
                    /\ UNCHANGED <<users, wallets, txs, tasks, queue>>
              /\ (Called(r, {"charge_raised", "charge_wallet"})
                    /\ tasks[rq'[r].tid].user_id \notin DOMAIN wallets) =>
                    /\ rq'[r].pc = "charge_raised"
                    /\ UNCHANGED <<users, wallets, txs, tasks, queue>>
              /\ (CallFrom(r, "charge_raised") \/ \E pc \in NoWalletAnswers : CallFrom(r, pc)) =>
                    /\ rq'[r].pc = "idle"
                    /\ UNCHANGED <<users, wallets, txs, tasks, queue>>
      ]_vars

\* a third user has registered with role USER and has a wallet of 0, and a
\* charge for the task of the ADMIN, who has no wallet, has been refused
C29_Witness ==
    /\ Len(users) = 3
    /\ users[3] = USER
    /\ 3 \in DOMAIN wallets
    /\ wallets[3] = 0
    /\ \E r \in Requests :
        /\ rq[r].pc = "charge_raised"
        /\ users[rq[r].loaded.user_id] = ADMIN
        /\ rq[r].loaded.user_id \notin DOMAIN wallets

\* C30: ledger entries are immutable and append-only: no API, billing or
\* worker operation modifies or deletes an existing transaction; every
\* transaction has amount > 0 and every CHARGE transaction carries a task
\* reference.
C30_LedgerAppendOnly ==
    [][\/ txs' = txs
       \/ /\ Len(txs') = Len(txs) + 1
          /\ SubSeq(txs', 1, Len(txs)) = txs
          /\ LET tx == txs'[Len(txs')] IN
             /\ tx.amount > 0
             /\ tx.tx_type \in {TOPUP, CHARGE}
             /\ tx.tx_type = CHARGE => tx.task_id \in TaskRange
    ]_vars

\* the ledger holds a TOPUP row and a CHARGE row of a later step
C30_Witness ==
    /\ Len(txs) >= 2
    /\ \E i, j \in DOMAIN txs :
        /\ i < j
        /\ txs[i].tx_type = TOPUP /\ txs[i].task_id = None
        /\ txs[j].tx_type = CHARGE /\ txs[j].task_id # None

\* C31: in every reachable persisted state and for every task, result is
\* non-null if and only if status is DONE.
C31_ResultIffDone ==
    \A t \in TaskRange : (tasks[t].result # NoneResult) <=> (tasks[t].status = DONE)

\* ------------------------------------------------- entity method calls
Obj(r) == rq[r].loaded
MethodCall(r, name) ==
    rq[r].pc = "idle" /\ rq'[r].pc \in {name \o "_returned", name \o "_raised"}
Returned(r, name) == rq'[r].pc = name \o "_returned"

\* C32: add_answer succeeds only while the task is CREATED; in VALIDATED,
\* PROCESSING, DONE or FAILED it fails and leaves answers and status
\* unchanged, so answers never change after the task has left CREATED.
C32_AddAnswerContract ==
    [][\A r \in Requests :
        /\ MethodCall(r, "add_answer") =>
              /\ Returned(r, "add_answer") <=> (Obj(r).status = CREATED)
              /\ Obj(r)' = IF Obj(r).status = CREATED
                           THEN [Obj(r) EXCEPT !.answers = @ \cup {rq'[r].args[1]}]
                           ELSE Obj(r)
        /\ Obj(r).status # CREATED => Obj(r)'.answers = Obj(r).answers
    ]_vars

\* add_answer has been refused on a task that is DONE
C32_Witness ==
    \E r \in Requests : rq[r].pc = "add_answer_raised" /\ Obj(r).status = DONE

\* C33: set_validation_result is accepted only from CREATED: with is_valid
\* true the task moves to VALIDATED, with is_valid false it stays CREATED and
\* stores the errors; in any other status it fails and leaves status and
\* validation_errors unchanged.
C33_ValidationResultContract ==
    [][\A r \in Requests :
        MethodCall(r, "set_validation_result") =>
            LET is_valid == rq'[r].args[1]
                errors == rq'[r].args[2]
            IN /\ Returned(r, "set_validation_result") <=> (Obj(r).status = CREATED)
               /\ Obj(r).status = CREATED =>
                     /\ Obj(r)'.status = IF is_valid THEN VALIDATED ELSE CREATED
                     /\ ~is_valid => Obj(r)'.validation_errors = errors
               /\ Obj(r).status # CREATED =>
                     /\ Obj(r)'.status = Obj(r).status
                     /\ Obj(r)'.validation_errors = Obj(r).validation_errors
    ]_vars

\* errors were stored on a task that stayed CREATED, the task was later
\* validated, and a further outcome with other errors has been refused
C33_Witness ==
    \E r \in Requests :
        /\ rq[r].pc = "set_validation_result_raised"
        /\ Obj(r).status = VALIDATED
        /\ Obj(r).validation_errors # {}
        /\ rq[r].args[2] # Obj(r).validation_errors

\* C34: set_result is accepted only from PROCESSING and only with
\* charged_amount > 0, and then moves the task to DONE with result and
\* charged_amount set; from any other status or with charged_amount <= 0 it
\* fails and leaves status, result and charged_amount unchanged.
C34_SetResultContract ==
    [][\A r \in Requests :
        MethodCall(r, "set_result") =>
            LET res == rq'[r].args[1]
                amount == rq'[r].args[2]
                accepted == Obj(r).status = PROCESSING /\ amount > 0
            IN /\ Returned(r, "set_result") <=> accepted
               /\ accepted =>
                     /\ Obj(r)'.status = DONE
                     /\ Obj(r)'.result = res
                     /\ Obj(r)'.charged_amount = amount
               /\ ~accepted =>
                     /\ Obj(r)'.status = Obj(r).status
                     /\ Obj(r)'.result = Obj(r).result
                     /\ Obj(r)'.charged_amount = Obj(r).charged_amount
    ]_vars

\* set_result has been refused on a PROCESSING task for its amount
C34_Witness ==
    \E r \in Requests :
        /\ rq[r].pc = "set_result_raised"
        /\ Obj(r).status = PROCESSING
        /\ rq[r].args[2] <= 0

\* C35: set_error is accepted from CREATED, VALIDATED and PROCESSING and
\* moves the task to FAILED with the message stored; on a DONE or FAILED task
\* it fails and never overwrites the existing status or error_message.
C35_SetErrorContract ==
    [][\A r \in Requests :
        MethodCall(r, "set_error") =>
            LET accepted == Obj(r).status \in {CREATED, VALIDATED, PROCESSING} IN
            /\ Returned(r, "set_error") <=> accepted
            /\ accepted =>
                  /\ Obj(r)'.status = FAILED
                  /\ Obj(r)'.error_message = rq'[r].args[1]
            /\ ~accepted =>
                  /\ Obj(r)'.status = Obj(r).status
                  /\ Obj(r)'.error_message = Obj(r).error_message
    ]_vars

\* set_error has been refused on a FAILED task that holds another message
C35_Witness ==
    \E r \in Requests :
        /\ rq[r].pc = "set_error_raised"
        /\ Obj(r).status = FAILED
        /\ Obj(r).error_message # rq[r].args[1]

\* ------------------------------------------------ the two run paths
\* the consumer has settled the delivery of task 1 and run_task has
\* returned for a task 2 of the other user with the same model and answers;
\* the scoring call raised in neither
SamePathInputs ==
    /\ Len(tasks) >= 2
    /\ tasks[2].user_id = 2
    /\ tasks[2].model_id = tasks[1].model_id
    /\ tasks[2].answers = tasks[1].answers
    /\ \A r \in Requests : rq[r].pc = "idle"
    /\ WorkersAtRest /\ QueueEmpty
    /\ tasks[1].error_message # "Predict failed"
    /\ tasks[2].error_message # "Predict failed"

\* C36: the synchronous run path and the worker's handler, started from the
\* same answers, model and balance, end with the same task status, the same
\* stored validation errors, the same charged_amount and the same balance.
C36_SamePathsSameOutcome ==
    SamePathInputs =>
        /\ tasks[2].status = tasks[1].status
        /\ tasks[2].validation_errors = tasks[1].validation_errors
        /\ tasks[2].charged_amount = tasks[1].charged_amount
        /\ wallets[2] = wallets[1]

\* ------------------------------------------ order of one worker execution
Enters(w, pc) == wk[w].pc # pc /\ wk'[w].pc = pc

\* C37: inside one worker execution the PROCESSING status is committed
\* before the scoring strategy is invoked; the debit is issued only after
\* validation passed, the balance gate passed and the scoring call returned;
\* the DONE status is committed only after the debit.
C37_WorkerOrdering ==
    [][\A w \in Workers :
        /\ Enters(w, "can_pay") =>
              /\ wk[w].pc = "load"
              /\ validate(wk'[w].loaded.model_id, wk'[w].loaded.answers) = {}
        /\ Enters(w, "processing") =>
              /\ wk[w].pc = "can_pay"
              /\ wallets[OwnerOf(w)] >= PriceOf(w)
        /\ Enters(w, "predict") =>
              /\ wk[w].pc = "processing"
              /\ wk[w].loaded.status \in {VALIDATED, PROCESSING}
              /\ wk[w].loaded.status = VALIDATED => tasks'[wk[w].tid].status = PROCESSING
              /\ wk'[w].loaded = tasks'[wk[w].tid]
        /\ Enters(w, "charge_wallet") => wk[w].pc = "predict"
        /\ wallets' # wallets /\ wk'[w] # wk[w] => wk[w].pc = "charge_wallet"
        /\ Enters(w, "set_result") =>
              /\ \/ wk[w].pc = "charge_tx"
                 \/ wk[w].pc = "predict" /\ wk[w].loaded.charged_amount # None
              /\ ChargeTxs(wk[w].tid)' # {}
        /\ (StepFrom(w, "set_result") /\ tasks' # tasks) =>
              /\ tasks'[wk[w].tid].status = DONE
              /\ ChargeTxs(wk[w].tid) # {}
    ]_vars

\* a consumer has committed DONE for a task it charged in this execution
C37_Witness ==
    \E w \in Workers :
        /\ acked = [by |-> w, kind |-> "ack", tid |-> 1]
        /\ 1 \in TaskRange
        /\ tasks[1].status = DONE
        /\ tasks[1].worker_id = w
        /\ ChargeTxs(1) # {}

\* ------------------------------------------- order of one synchronous run
RqEnters(r, pc) == rq[r].pc # pc /\ rq'[r].pc = pc
RqStepFrom(r, pc) == rq[r].pc = pc /\ rq'[r] # rq[r]
ShortOfFunds(r) ==
    /\ rq[r].loaded.model_id \in MLModelIds
    /\ rq[r].loaded.user_id \in DOMAIN wallets
    /\ wallets[rq[r].loaded.user_id] < price_per_task(rq[r].loaded.model_id)

C39_DebitOnlyWhileProcessing ==
    [][\A w \in Workers :
          (StepFrom(w, "charge_wallet") /\ wallets' # wallets) =>
              /\ wk[w].loaded.status = PROCESSING
              /\ tasks[wk[w].tid].status = PROCESSING]_vars

\* C40: the request-serving layer publishes at most one message per task:
\* a request goes on to the publish only for a task it found not yet
\* submitted, and a /run that found the task VALIDATED or PROCESSING neither
\* publishes nor rewrites the status.
C40_PublishedAtMostOnce ==
    [][\A r \in Requests :
          RqStepFrom(r, "validate") =>
              /\ rq'[r].pc = "publish" =>
                    rq[r].loaded.status = CREATED /\ rq[r].tid \notin validated
              /\ rq[r].loaded.status \in {VALIDATED, PROCESSING} =>
                    tasks'[rq[r].tid].status = tasks[rq[r].tid].status]_vars

====
